---- MODULE Spec2Model ----
(***************************************************************************)
(* A model of the OGMB grade calculator: the session store and the API     *)
(* routes of server/index.js, the percentage derivation and the grade      *)
(* aggregation of server/index.js and src/App.vue.                         *)
(*                                                                         *)
(* Time is in milliseconds, as Date.now() gives it.  A handler's           *)
(* synchronous part (one run of the event loop) is one atomic step taken   *)
(* at one reading of the clock.                                            *)
(***************************************************************************)
EXTENDS Integers, Sequences, FiniteSets, TLC

VARIABLES
    userSessions,   \* server/index.js:14  Map sessionId -> session record
    now,            \* Date.now() at the most recently handled request
    last,           \* the most recently handled request and its response
    sessionId,      \* src/App.vue:11  the client's sessionId ref
    given,          \* the numbers the portal rendered into the fragment
    fragment,       \* one task fragment of the core_tasks page
    task,           \* the Task fetchTasks pushes for it (None: skipped)
    pc,             \* position of the extraction and aggregation runs
    tasks,          \* the Task list of one class
    categories,     \* the Category list of one class
    serverGrade,    \* calculateFinalGrade(tasks, categories), server
    clientGrade,    \* calculateTotalClassAverage, client
    originalGradeAverages,  \* src/App.vue:17  the snapshot taken by fetchTasks
    error,          \* src/App.vue:10  the client's error ref
    edit,           \* the most recent call of the grade editor
    document,       \* the portal's page(s) a server fetch reads
    reply,          \* what the server made of the document
    pipelines       \* server/index.js:326  the promises classes.map returned

vars == << userSessions, now, last, sessionId, given, fragment, task, pc,
           tasks, categories, serverGrade, clientGrade,
           originalGradeAverages, error, edit, document, reply, pipelines >>

sessionVars == << userSessions, now, last, sessionId >>
pointsVars  == << given, fragment, task >>
gradeVars   == << tasks, categories, serverGrade, clientGrade >>
editVars    == << originalGradeAverages, error, edit >>
fetchVars   == << document, reply, pipelines >>
pureVars    == << pointsVars, pc, gradeVars, editVars, fetchVars >>

-----------------------------------------------------------------------------
(* JavaScript's absent values.  An optional number is <<>> (null) or <<n>>. *)

NULL      == "null"
UNDEFINED == "undefined"
None      == << >>
Some(v)   == << v >>

-----------------------------------------------------------------------------
(* Strings are sequences of one-character strings.  The alphabet of the    *)
(* model is the digits, the signs, the space, '/', and the letters of      *)
(* "pts", "N/A" and "&nbsp;"; it has no '.', no exponent and no            *)
(* "Infinity", so every number parseFloat reads here is an integer.        *)

Digits == << "0", "1", "2", "3", "4", "5", "6", "7", "8", "9" >>

IsDigit(c) == \E i \in 1..10 : Digits[i] = c

DigitValue(c) == ( CHOOSE i \in 1..10 : Digits[i] = c ) - 1

\* The decimal numeral of n, as the portal prints it.
RECURSIVE NatToString(_)
NatToString(n) ==
    IF n < 10 THEN << Digits[n + 1] >>
              ELSE NatToString(n \div 10) \o << Digits[(n % 10) + 1] >>

IntToString(n) == IF n < 0 THEN << "-" >> \o NatToString(-n) ELSE NatToString(n)

\* String.prototype.includes, for a one-character needle
Includes(str, c) == \E i \in 1..Len(str) : str[i] = c

StartsWithAt(str, i, pat) ==
    /\ i + Len(pat) - 1 <= Len(str)
    /\ \A k \in 1..Len(pat) : str[i + k - 1] = pat[k]

\* The place of the first occurrence of pat in str from i on, or 0.
IndexOfFrom(str, pat, i) ==
    LET at == { k \in i..Len(str) : StartsWithAt(str, k, pat) }
    IN  IF at = { } THEN 0 ELSE CHOOSE k \in at : \A j \in at : k <= j

\* String.prototype.replace with a string pattern: the first occurrence.
ReplaceFirst(str, pat, rep) ==
    LET i == IndexOfFrom(str, pat, 1)
    IN  IF i = 0 THEN str
        ELSE SubSeq(str, 1, i - 1) \o rep \o SubSeq(str, i + Len(pat), Len(str))

\* String.prototype.replace with a /g pattern: every occurrence, left to right.
RECURSIVE ReplaceAll(_, _, _)
ReplaceAll(str, pat, rep) ==
    LET i == IndexOfFrom(str, pat, 1)
    IN  IF i = 0 THEN str
        ELSE SubSeq(str, 1, i - 1) \o rep
             \o ReplaceAll(SubSeq(str, i + Len(pat), Len(str)), pat, rep)

\* String.prototype.split with a one-character separator
RECURSIVE Split(_, _)
Split(str, c) ==
    LET i == IndexOfFrom(str, << c >>, 1)
    IN  IF i = 0 THEN << str >>
        ELSE << SubSeq(str, 1, i - 1) >> \o Split(SubSeq(str, i + 1, Len(str)), c)

IsSpace(c) == c = " "

\* The places of the characters of str that are not white space.
Inked(str) == { i \in 1..Len(str) : ~ IsSpace(str[i]) }

TrimStart(str) ==
    IF Inked(str) = { } THEN << >>
    ELSE SubSeq(str, CHOOSE i \in Inked(str) : \A j \in Inked(str) : i <= j, Len(str))

TrimEnd(str) ==
    IF Inked(str) = { } THEN << >>
    ELSE SubSeq(str, 1, CHOOSE i \in Inked(str) : \A j \in Inked(str) : i >= j)

\* String.prototype.trim
Trim(str) == TrimEnd(TrimStart(str))

Amp  == << "&", "a", "m", "p", ";" >>
Lt   == << "&", "l", "t", ";" >>
Gt   == << "&", "g", "t", ";" >>
Quot == << "&", "q", "u", "o", "t", ";" >>
Apos == << "&", "#", "0", "3", "9", ";" >>
Nbsp == << "&", "n", "b", "s", "p", ";" >>

\* decodeHtmlEntities, for a string (the !text case is extractText's caller's)
decodeHtmlEntities(text) ==
    ReplaceAll(ReplaceAll(ReplaceAll(ReplaceAll(ReplaceAll(ReplaceAll(text,
        Amp, << "&" >>), Lt, << "<" >>), Gt, << ">" >>), Quot, << "\"" >>),
        Apos, << "'" >>), Nbsp, << " " >>)

\* extractText(match): match is None (no match) or Some(group 1).
extractText(match) ==
    IF match = None THEN None ELSE Some(decodeHtmlEntities(Trim(match[1])))

\* The value of the digits at the head of str, and how many there are.
RECURSIVE ReadDigits(_, _, _)
ReadDigits(str, acc, n) ==
    IF Len(str) > 0 /\ IsDigit(str[1])
      THEN ReadDigits(Tail(str), 10 * acc + DigitValue(str[1]), n + 1)
      ELSE [ value |-> acc, count |-> n ]

\* parseFloat: leading white space, an optional sign, then the longest
\* numeric prefix; NaN when there is none.  nan, or (-1)^neg * mag.
parseFloat(str) ==
    LET t    == TrimStart(str)
        sign == Len(t) > 0 /\ t[1] \in { "-", "+" }
        body == IF sign THEN Tail(t) ELSE t
        rd   == ReadDigits(body, 0, 0)
    IN  IF rd.count = 0
          THEN [ nan |-> TRUE, neg |-> FALSE, mag |-> 0 ]
          ELSE [ nan |-> FALSE, neg |-> sign /\ t[1] = "-", mag |-> rd.value ]

-----------------------------------------------------------------------------
(* IEEE-754 binary64 arithmetic, as JavaScript's / and * do it: the exact  *)
(* result rounded to 53 significant bits, ties to even.  A positive        *)
(* double is its significand, a sequence of 53 bits with the least         *)
(* significant first, and the exponent of that least significant bit.      *)
(* Long numbers are worked on nine bits (one base-512 digit) at a time.    *)

Precision == 53

BitAt(bits, i) == IF i >= 1 /\ i <= Len(bits) THEN bits[i] ELSE 0

\* bits + 1
Increment(bits) ==
    IF \A i \in 1..Len(bits) : bits[i] = 1
      THEN [ i \in 1..(Len(bits) + 1) |-> IF i = Len(bits) + 1 THEN 1 ELSE 0 ]
      ELSE LET z == CHOOSE i \in 1..Len(bits) :
                      bits[i] = 0 /\ \A j \in 1..(i - 1) : bits[j] = 1
           IN  [ i \in 1..Len(bits) |-> IF i < z THEN 0 ELSE IF i = z THEN 1 ELSE bits[i] ]

\* The exact value bits * 2^exp (its top bit 1, more than 53 bits long)
\* rounded to the nearest double, ties to even.
RoundToNearestEven(bits, exp) ==
    LET drop   == Len(bits) - Precision
        kept   == [ i \in 1..Precision |-> bits[drop + i] ]
        half   == bits[drop] = 1
        sticky == \E i \in 1..(drop - 1) : bits[i] = 1
        up     == half /\ ( sticky \/ kept[1] = 1 )
        inc    == Increment(kept)
    IN  IF ~ up THEN [ bits |-> kept, exp |-> exp + drop ]
        ELSE IF Len(inc) = Precision THEN [ bits |-> inc, exp |-> exp + drop ]
        ELSE [ bits |-> [ i \in 1..Precision |-> inc[i + 1] ], exp |-> exp + drop + 1 ]

\* The largest t with b * 2^t <= a (a >= b > 0).
RECURSIVE ShiftUp(_, _, _)
ShiftUp(a, b, t) == IF 2 * b <= a THEN ShiftUp(a, 2 * b, t + 1) ELSE t

\* The smallest s with a * 2^s >= b (0 < a < b).
RECURSIVE ShiftDown(_, _, _)
ShiftDown(a, b, s) == IF a >= b THEN s ELSE ShiftDown(2 * a, b, s + 1)

\* n more base-512 digits of the quotient rem / den (rem < den) after
\* those of acc, most significant first, and what remains.
RECURSIVE QuotientDigits(_, _, _, _)
QuotientDigits(rem, den, n, acc) ==
    IF n = 0 THEN [ digits |-> acc, rem |-> rem ]
    ELSE QuotientDigits(( 512 * rem ) % den, den, n - 1,
                        Append(acc, ( 512 * rem ) \div den))

\* The bit of weight 2^i (i in 0..8) of a base-512 digit.
DigitBit(digit, i) == ( digit \div 2^i ) % 2

\* a / b for integers a > 0, b > 0 held exactly in doubles.
Divide(a, b) ==
    LET t  == IF a >= b THEN ShiftUp(a, b, 0) ELSE - ShiftDown(a, b, 0)
        A  == IF t < 0 THEN a * 2^(-t) ELSE a
        B  == IF t > 0 THEN b * 2^t ELSE b
        \* A / B is in [1, 2): 1 and 54 bits after the point, in six digits
        qd == QuotientDigits(A - B, B, 6, << >>)
        \* the bit of weight 2^(-j), j in 1..54
        frac(j) == DigitBit(qd.digits[( ( j - 1 ) \div 9 ) + 1], 8 - ( ( j - 1 ) % 9 ))
        \* least significant first: the sticky bit, the 54 bits, the 1
        q  == [ i \in 1..(Precision + 3) |->
                  IF i = 1 THEN ( IF qd.rem # 0 THEN 1 ELSE 0 )
                  ELSE IF i = Precision + 3 THEN 1
                  ELSE frac(Precision + 3 - i) ]
    IN  RoundToNearestEven(q, t - ( Precision + 2 ))

\* The base-512 digit of bits that starts at bit 9k + 1: its bits from the
\* i-th on.
RECURSIVE DigitFrom(_, _, _)
DigitFrom(bits, k, i) ==
    IF i > 8 THEN 0 ELSE BitAt(bits, 9 * k + i + 1) + 2 * DigitFrom(bits, k, i + 1)

\* 100 * (the digits of bits from the k-th on) + carry, least significant
\* digit first after those of acc; n digits are left to multiply.
RECURSIVE Times100Digits(_, _, _, _, _)
Times100Digits(bits, k, n, carry, acc) ==
    IF n = 0 THEN Append(acc, carry)
    ELSE LET v == 100 * DigitFrom(bits, k, 0) + carry
         IN  Times100Digits(bits, k + 1, n - 1, v \div 512, Append(acc, v % 512))

\* x * 100 for a positive double x.
Times100(x) ==
    LET digits == Times100Digits(x.bits, 0, 6, 0, << >>)    \* 7 digits, 63 bits
        bit(i) == DigitBit(digits[( ( i - 1 ) \div 9 ) + 1], ( i - 1 ) % 9)
        top    == CHOOSE i \in 1..63 : bit(i) = 1 /\ \A j \in (i + 1)..63 : bit(j) = 0
    IN  RoundToNearestEven([ i \in 1..top |-> bit(i) ], x.exp)

\* The number whose binary digits from place i on are those of bits.
RECURSIVE BitsValueFrom(_, _)
BitsValueFrom(bits, i) ==
    IF i > Len(bits) THEN 0 ELSE bits[i] + 2 * BitsValueFrom(bits, i + 1)

\* Math.round of (-1)^neg * x: the nearest integer, a tie going to +infinity.
MathRound(neg, x) ==
    LET k     == - x.exp                      \* fraction bits
        whole == IF k <= 0 THEN BitsValueFrom(x.bits, 1) * 2^(-k)
                 ELSE BitsValueFrom(x.bits, k + 1)
        half  == BitAt(x.bits, k) = 1
        below == \E i \in 1..(k - 1) : BitAt(x.bits, i) = 1
    IN  IF ~ neg THEN whole + ( IF half THEN 1 ELSE 0 )
        ELSE - ( whole + ( IF half /\ below THEN 1 ELSE 0 ) )

\* Math.round((earned / total) * 100) for integers earned >= 0 and total > 0
PercentOf(neg, earned, total) ==
    IF earned = 0 THEN 0
    ELSE MathRound(neg, Times100(Divide(earned, total)))

\* calculatePercentage(pointsStr): pointsStr is None (null) or Some(string);
\* the result is None (null) or Some(integer).
calculatePercentage(pointsStr) ==
    IF pointsStr = None \/ pointsStr = Some(<< >>) \/ ~ Includes(pointsStr[1], "/")
      THEN None
      ELSE LET parts  == Split(pointsStr[1], "/")
               num(i) == parseFloat(Trim(ReplaceFirst(parts[i], << "p", "t", "s" >>, << >>)))
               earned == num(1)
               total  == num(2)
           IN  IF ~ earned.nan /\ ~ total.nan /\ ~ total.neg /\ total.mag > 0
                 THEN Some(PercentOf(earned.neg, earned.mag, total.mag))
                 ELSE None

-----------------------------------------------------------------------------
(* Task extraction: one fragment of the core_tasks page.                   *)

\* The largest earned and total numbers the portal renders in the model.
MaxEarned == 41
MaxTotal == 40

\* A fragment: whether it has the id+name anchor, and group 1 of the
\* points pattern (None: the fragment has no points element).
Fragment(anchor, points) == [ anchor |-> anchor, points |-> points ]

NoFragment == Fragment(FALSE, None)

\* The layouts of a points text "a/b".
Styles == { "plain", "unit", "units" }

Render(a, b, style) ==
    LET x == IntToString(a)
        y == IntToString(b)
        pts == << "p", "t", "s" >>
    IN  CASE style = "plain" -> x \o << "/" >> \o y
          [] style = "unit"  -> x \o << " ", "/", " " >> \o y \o << " " >> \o pts
          [] style = "units" -> << " " >> \o x \o << " " >> \o pts \o << " ", "/", " " >>
                                \o y \o pts \o << " " >>

\* Points texts without a '/', or without a number on one side of it.
UnparsableTexts ==
    { << " " >>,
      << "-" >>,
      << "5" >>,
      << "5", " ", "p", "t", "s" >>,
      << "N", "/", "A" >>,
      << "/" >>,
      << "5", "/" >>,
      << "/", "5" >>,
      << "p", "t", "s", "/", "p", "t", "s" >>,
      << "-", "/", "1", "0", " ", "p", "t", "s" >> }

\* Points texts of other shapes: entities for the spaces, a second '/'.
OtherTexts ==
    { << "5", "&", "n", "b", "s", "p", ";", "/", "&", "n", "b", "s", "p", ";", "1", "0" >>,
      << "5", "/", "1", "0", "/", "2", "0" >> }

\* What the portal put into the fragment: two numbers in a layout
\* ("form"), a text of UnparsableTexts or of OtherTexts, or no points
\* element ("none").
Given(kind, earned, total, style) ==
    [ kind |-> kind, earned |-> earned, total |-> total, style |-> style ]

NoGiven == Given("none", 0, 0, "plain")

Givens ==
    { Given("form", a, b, st) : a \in (-1)..MaxEarned, b \in (-1)..MaxTotal, st \in Styles }
    \cup { Given("unparsable", 0, 0, "plain"), Given("other", 0, 0, "plain"), NoGiven }

PointsTexts(g) ==
    CASE g.kind = "form"       -> { Some(Render(g.earned, g.total, g.style)) }
      [] g.kind = "unparsable" -> { Some(t) : t \in UnparsableTexts }
      [] g.kind = "other"      -> { Some(t) : t \in OtherTexts }
      [] OTHER                 -> { None }

\* The Task fetchTasks pushes for one fragment (None: the fragment has no
\* name anchor and is skipped).
TaskOf(frag) ==
    IF ~ frag.anchor THEN None
    ELSE LET pointsStr == extractText(frag.points)
         IN  Some([ points |-> pointsStr,
                    percentage |-> calculatePercentage(pointsStr) ])

\* One turn of fetchTasks' while loop.
ExtractTask ==
    /\ pc = "fragment"
    /\ task' = TaskOf(fragment)
    /\ pc' = "task"
    /\ UNCHANGED << sessionVars, given, fragment, gradeVars, editVars, fetchVars >>

-----------------------------------------------------------------------------
(* Grade aggregation.  Of a Task it reads category (NULL: none) and        *)
(* percentage; of a Category, name and weight.  The quotients are kept as  *)
(* exact fractions: on the lists of the model (and of one more task) the   *)
(* doubles of calculateFinalGrade round to the same integers.              *)

\* The most tasks of a class in the model.
MaxTasks == 3

\* The percentages of the tasks and the weights of the categories.
Percentages == { 0, 1 }
Weights == { 0, 1, 2 }

CategoryNames == { "A", "B" }

Tasks == [ name : { "T" },
           date : { Some(<< "S", "e", "p", " ", "1" >>) },
           category : CategoryNames \cup { NULL },
           percentage : { None } \cup { Some(p) : p \in Percentages } ]

Categories == [ name : CategoryNames, weight : Weights ]

TaskLists == UNION { [ 1..n -> Tasks ] : n \in 0..MaxTasks }

\* The categories page lists at most as many categories as there are names.
CategoryLists == UNION { [ 1..n -> Categories ] : n \in 0..Cardinality(CategoryNames) }

\* n / d (d > 0) as Math.round rounds it: to the nearest integer, a half up.
Round(n, d) == ( 2 * n + d ) \div ( 2 * d )

\* categoryAverages[name] after the tasks.forEach: total and count over the
\* tasks i..Len(ts) of that category that have a percentage.
RECURSIVE Tally(_, _, _)
Tally(ts, name, i) ==
    IF i > Len(ts) THEN [ total |-> 0, count |-> 0 ]
    ELSE LET rest == Tally(ts, name, i + 1)
         IN  IF ts[i].category = name /\ ts[i].percentage # None
               THEN [ total |-> rest.total + ts[i].percentage[1],
                      count |-> rest.count + 1 ]
               ELSE rest

\* WeighUnrounded without the test for weight > 0 and a tallied category:
\* a category without a graded task weighs in with 0.
RECURSIVE WeighUnrounded_EveryCategory(_, _, _)
WeighUnrounded_EveryCategory(ts, cs, j) ==
    IF j > Len(cs) THEN [ num |-> 0, den |-> 1, weight |-> 0 ]
    ELSE LET rest == WeighUnrounded_EveryCategory(ts, cs, j + 1)
             avg  == Tally(ts, cs[j].name, 1)
         IN  IF avg.count > 0
               THEN [ num |-> rest.num * avg.count + avg.total * cs[j].weight * rest.den,
                      den |-> rest.den * avg.count,
                      weight |-> rest.weight + cs[j].weight ]
               ELSE [ rest EXCEPT !.weight = rest.weight + cs[j].weight ]

\* The categories.forEach of calculateFinalGrade over cs[j..]: the sums
\* totalWeightedScore = num / den and totalWeight.
RECURSIVE WeighUnrounded(_, _, _)
WeighUnrounded(ts, cs, j) ==
    IF j > Len(cs) THEN [ num |-> 0, den |-> 1, weight |-> 0 ]
    ELSE LET rest == WeighUnrounded(ts, cs, j + 1)
             avg  == Tally(ts, cs[j].name, 1)
         IN  IF cs[j].weight > 0 /\ avg.count > 0
               \* avg.total / avg.count * weight, added as a fraction
               THEN [ num |-> rest.num * avg.count + avg.total * cs[j].weight * rest.den,
                      den |-> rest.den * avg.count,
                      weight |-> rest.weight + cs[j].weight ]
               ELSE rest

\* calculateFinalGrade(tasks, categories) of the server
calculateFinalGrade(ts, cs) ==
    IF Len(cs) = 0 \/ Len(ts) = 0 THEN None
    ELSE LET sum == WeighUnrounded(ts, cs, 1)
         IN  IF sum.weight > 0 THEN Some(Round(sum.num, sum.den * sum.weight))
                               ELSE None

\* categorizedTasks[name] || [], each task as the entry's tasks list keeps
\* it: name, date and percentage.
categoryTasks(ts, name) ==
    LET own == SelectSeq(ts, LAMBDA t : t.category = name)
    IN  [ i \in 1..Len(own) |-> [ name |-> own[i].name,
                                  date |-> own[i].date,
                                  percentage |-> own[i].percentage ] ]

\* gradeAverages with Math.floor in the place of Math.round.
gradeAverages_Floor(ts, cs) ==
    IF Len(cs) = 0 \/ Len(ts) = 0 THEN << >>
    ELSE [ j \in 1..Len(cs) |->
             LET avg == Tally(ts, cs[j].name, 1)
             IN  [ category |-> cs[j].name,
                   weight |-> cs[j].weight,
                   average |-> IF avg.count > 0 THEN Some(avg.total \div avg.count)
                                                ELSE None,
                   tasks |-> categoryTasks(ts, cs[j].name) ] ]

\* gradeAverages of the client: one entry for each category, in order.
gradeAverages(ts, cs) ==
    IF Len(cs) = 0 \/ Len(ts) = 0 THEN << >>
    ELSE [ j \in 1..Len(cs) |->
             LET avg == Tally(ts, cs[j].name, 1)
             IN  [ category |-> cs[j].name,
                   weight |-> cs[j].weight,
                   average |-> IF avg.count > 0 THEN Some(Round(avg.total, avg.count))
                                                ELSE None,
                   tasks |-> categoryTasks(ts, cs[j].name) ] ]

\* The forEach of calculateTotalClassAverage over ga[j..].
RECURSIVE WeighRounded(_, _)
WeighRounded(ga, j) ==
    IF j > Len(ga) THEN [ score |-> 0, weight |-> 0 ]
    ELSE LET rest == WeighRounded(ga, j + 1)
         IN  IF ga[j].average # None /\ ga[j].weight > 0
               THEN [ score |-> rest.score + ga[j].average[1] * ga[j].weight,
                      weight |-> rest.weight + ga[j].weight ]
               ELSE rest

\* calculateTotalClassAverage of the client
calculateTotalClassAverage(ts, cs) ==
    LET sum == WeighRounded(gradeAverages(ts, cs), 1)
    IN  IF sum.weight > 0 THEN Some(Round(sum.score, sum.weight)) ELSE None

\* GET /api/classes computes the class's finalGrade for the class list.
ListClass ==
    /\ pc = "fetched"
    /\ serverGrade' = calculateFinalGrade(tasks, categories)
    /\ pc' = "listed"
    /\ UNCHANGED << sessionVars, pointsVars, tasks, categories, clientGrade,
                    editVars, fetchVars >>

\* The class view shows the final weighted grade of the same data.
ShowClass ==
    /\ pc = "listed"
    /\ clientGrade' = calculateTotalClassAverage(tasks, categories)
    /\ pc' = "shown"
    /\ UNCHANGED << sessionVars, pointsVars, tasks, categories, serverGrade,
                    editVars, fetchVars >>

-----------------------------------------------------------------------------
(* The client's class view: fetchTasks, the grade editor, leaving the view. *)
(* Positions in lists count from 1 here and from 0 in the source.          *)

Upper == << "A", "B", "C", "D", "E", "F", "G", "H", "I", "J", "K", "L", "M",
            "N", "O", "P", "Q", "R", "S", "T", "U", "V", "W", "X", "Y", "Z" >>
Lower == << "a", "b", "c", "d", "e", "f", "g", "h", "i", "j", "k", "l", "m",
            "n", "o", "p", "q", "r", "s", "t", "u", "v", "w", "x", "y", "z" >>

\* String.prototype.toLowerCase
toLowerCase(str) ==
    [ i \in 1..Len(str) |->
        IF \E k \in 1..26 : Upper[k] = str[i]
          THEN Lower[CHOOSE k \in 1..26 : Upper[k] = str[i]]
          ELSE str[i] ]

\* parseInt(str): leading white space, an optional sign, then the decimal
\* digits up to the first other character; NaN when there is no digit.
parseInt(str) ==
    LET t    == TrimStart(str)
        sign == Len(t) > 0 /\ t[1] \in { "-", "+" }
        body == IF sign THEN Tail(t) ELSE t
        rd   == ReadDigits(body, 0, 0)
    IN  IF rd.count = 0
          THEN [ nan |-> TRUE, value |-> 0 ]
          ELSE [ nan |-> FALSE,
                 value |-> IF sign /\ t[1] = "-" THEN 0 - rd.value ELSE rd.value ]

\* The keys of parseTaskDate's months object, at their values plus one.
months ==
    << << "j", "a", "n" >>, << "f", "e", "b" >>, << "m", "a", "r" >>,
       << "a", "p", "r" >>, << "m", "a", "y" >>, << "j", "u", "n" >>,
       << "j", "u", "l" >>, << "a", "u", "g" >>, << "s", "e", "p" >>,
       << "o", "c", "t" >>, << "n", "o", "v" >>, << "d", "e", "c" >> >>

\* parseTaskDate(dateStr) when the current month is currentMonth (0..11):
\* None for an Invalid Date, else the day's place in time, counted in days
\* of 31-day months from the start of the current year.
parseTaskDate(dateStr, currentMonth) ==
    LET parts == Split(toLowerCase(dateStr), " ")
        monthName == parts[1]
        day == IF Len(parts) > 1 THEN parseInt(parts[2]) ELSE [ nan |-> TRUE, value |-> 0 ]
        known == { k \in 1..12 : months[k] = monthName }
    IN  IF known = { } \/ day.nan THEN None
        ELSE LET month == ( CHOOSE k \in known : TRUE ) - 1
                 year  == IF month > 7 /\ currentMonth < 6 THEN 0 - 1 ELSE 0
             IN  Some(( year * 12 + month ) * 31 + day.value)

\* The comparator (a, b) => dateB - dateA is negative: a is put before b.
\* With an Invalid Date the difference is NaN, which sort takes for 0.
Before(a, b, currentMonth) ==
    LET dateA == parseTaskDate(a.date[1], currentMonth)
        dateB == parseTaskDate(b.date[1], currentMonth)
    IN  dateA # None /\ dateB # None /\ dateB[1] - dateA[1] < 0

\* x put into the sorted list, behind every element it is not before.
RECURSIVE InsertSorted(_, _, _)
InsertSorted(sorted, x, currentMonth) ==
    IF Len(sorted) > 0 /\ Before(x, sorted[Len(sorted)], currentMonth)
      THEN InsertSorted(SubSeq(sorted, 1, Len(sorted) - 1), x, currentMonth)
             \o << sorted[Len(sorted)] >>
      ELSE sorted \o << x >>

\* Array.prototype.sort with that comparator (a stable sort).
RECURSIVE SortByDate(_, _)
SortByDate(ts, currentMonth) ==
    IF Len(ts) = 0 THEN << >>
    ELSE InsertSorted(SortByDate(SubSeq(ts, 1, Len(ts) - 1), currentMonth),
                      ts[Len(ts)], currentMonth)

\* The sort calls the comparator on every element of a list of two or
\* more, and parseTaskDate(null) throws a TypeError at dateStr.toLowerCase().
SortThrows(ts) ==
    Len(ts) > 1 /\ \E i \in 1..Len(ts) : ts[i].date = None

\* JSON.parse(JSON.stringify(v)): a copy that shares nothing with v.  The
\* values of the model are not shared in the first place.
JSONClone(v) == v

\* What a request of the client's fetchTasks is answered with.
TasksReply(status, ts, cs) == [ status |-> status, tasks |-> ts, categories |-> cs ]

\* The refs backToClasses and logout reset.
NoClass == [ tasks |-> << >>, categories |-> << >>, originalGradeAverages |-> << >>,
             error |-> "", loggedOut |-> FALSE ]

\* fetchTasks of the client: the refs after it, from the refs cl before it.
App_fetchTasks(cl, r, currentMonth) ==
    IF r.status = 200
      THEN IF SortThrows(r.tasks)
             \* categories.value is assigned before the sort throws
             THEN [ cl EXCEPT !.categories = r.categories,
                              !.error = "Failed to fetch tasks" ]
             ELSE LET sorted == SortByDate(r.tasks, currentMonth)
                  IN  [ tasks |-> sorted,
                        categories |-> r.categories,
                        originalGradeAverages
                          |-> JSONClone(gradeAverages(sorted, r.categories)),
                        error |-> "",
                        loggedOut |-> FALSE ]
      ELSE IF r.status = 401
             THEN [ NoClass EXCEPT !.loggedOut = TRUE ]
             ELSE [ cl EXCEPT !.error = "Failed to fetch tasks" ]

\* tasks.value.find(t => t.name === taskName && t.category === category):
\* the place of the first such task, 0 when there is none.
FindTask(ts, taskName, category) ==
    LET hits == { i \in 1..Len(ts) : ts[i].name = taskName /\ ts[i].category = category }
    IN  IF hits = { } THEN 0 ELSE CHOOSE i \in hits : \A k \in hits : i <= k

\* isTaskModified(categoryIndex, taskIndex), with the refs cl
isTaskModified(cl, categoryIndex, taskIndex) ==
    IF categoryIndex \notin DOMAIN cl.originalGradeAverages THEN FALSE
    ELSE LET original == cl.originalGradeAverages[categoryIndex].tasks[taskIndex]
             current  == gradeAverages(cl.tasks, cl.categories)[categoryIndex].tasks[taskIndex]
         IN  original.percentage # current.percentage

\* restoreOriginalValue that clears the percentage.
restoreOriginalValue_Cleared(cl, categoryIndex, taskIndex) ==
    LET currentCategory == gradeAverages(cl.tasks, cl.categories)[categoryIndex]
        taskName == currentCategory.tasks[taskIndex].name
        i == FindTask(cl.tasks, taskName, currentCategory.category)
    IN  IF i = 0 THEN cl ELSE [ cl EXCEPT !.tasks[i].percentage = None ]

\* restoreOriginalValue(categoryIndex, taskIndex): the refs after it
restoreOriginalValue(cl, categoryIndex, taskIndex) ==
    LET original == cl.originalGradeAverages[categoryIndex].tasks[taskIndex]
        currentCategory == gradeAverages(cl.tasks, cl.categories)[categoryIndex]
        taskName == currentCategory.tasks[taskIndex].name
        i == FindTask(cl.tasks, taskName, currentCategory.category)
    IN  IF i = 0 THEN cl ELSE [ cl EXCEPT !.tasks[i].percentage = original.percentage ]

\* The task updatePercentage writes to, and what it writes.
Written(cl, categoryIndex, taskIndex, value) ==
    LET currentCategory == gradeAverages(cl.tasks, cl.categories)[categoryIndex]
        taskName == currentCategory.tasks[taskIndex].name
    IN  [ task |-> FindTask(cl.tasks, taskName, currentCategory.category),
          percentage |-> IF value = << >> THEN None ELSE Some(parseInt(value).value) ]

\* updatePercentage with a snapshot that is the computed list itself, so
\* that it follows the edit.
updatePercentage_Live(cl, categoryIndex, taskIndex, value) ==
    LET w == Written(cl, categoryIndex, taskIndex, value)
        ts == [ cl.tasks EXCEPT ![w.task].percentage = w.percentage ]
    IN  IF w.task = 0 THEN cl
        ELSE [ cl EXCEPT !.tasks = ts,
                         !.originalGradeAverages = gradeAverages(ts, cl.categories) ]

\* updatePercentage(categoryIndex, taskIndex, value): the refs after it
updatePercentage(cl, categoryIndex, taskIndex, value) ==
    LET numValue == parseInt(value)
    IN  IF value # << >> /\ ( numValue.nan \/ numValue.value < 0 \/ numValue.value > 100 )
          THEN cl
          ELSE LET w == Written(cl, categoryIndex, taskIndex, value)
               IN  IF w.task = 0 THEN cl
                   ELSE [ cl EXCEPT !.tasks[w.task].percentage = w.percentage ]

\* backToClasses and logout
backToClasses(cl) == NoClass

logout(cl) == [ NoClass EXCEPT !.loggedOut = TRUE ]

\* The refs of the class view as one record.
Refs ==
    [ tasks |-> tasks, categories |-> categories,
      originalGradeAverages |-> originalGradeAverages,
      error |-> error, loggedOut |-> FALSE ]

\* The refs become cl; view is the view shown unless logout() ran, which
\* clears sessionId and so shows the login form.
SetRefs(cl, view) ==
    /\ tasks' = cl.tasks
    /\ categories' = cl.categories
    /\ originalGradeAverages' = cl.originalGradeAverages
    /\ error' = cl.error
    /\ sessionId' = IF cl.loggedOut THEN NULL ELSE sessionId
    /\ pc' = IF cl.loggedOut THEN "login" ELSE view

Edit(op, categoryIndex, taskIndex, value) ==
    [ op |-> op, categoryIndex |-> categoryIndex, taskIndex |-> taskIndex, value |-> value ]

\* No call of the editor since the class was opened.
NoEdit == Edit("none", 0, 0, << >>)

\* The rows of the averages tab, each with a number field and, when
\* modified, a Reset button: (categoryIndex, taskIndex).
Coordinates ==
    LET ga == gradeAverages(tasks, categories)
    IN  { c \in (DOMAIN ga) \X (1..Len(tasks)) : c[2] \in DOMAIN ga[c[1]].tasks }

\* The most tasks of the class whose grades are edited.
MaxEditTasks == 2

\* The tasks and categories of that class as GET /api/tasks/:classId sends
\* them, and the answers to the request.
EditTask(name, category, percentage) ==
    [ name |-> name, date |-> Some(<< "S", "e", "p", " ", "1" >>),
      category |-> category, percentage |-> percentage ]

EditTasks ==
    { EditTask("T", "A", Some(0)), EditTask("T", "A", None), EditTask("U", "A", Some(0)),
      EditTask("T", "B", Some(0)), EditTask("U", "B", None) }

EditTaskLists == UNION { [ 1..n -> EditTasks ] : n \in 0..MaxEditTasks }

EditCategoryLists ==
    { << [ name |-> "A", weight |-> 1 ] >>,
      << [ name |-> "A", weight |-> 1 ], [ name |-> "B", weight |-> 2 ] >> }

EditReplies ==
    { TasksReply(200, ts, cs) : ts \in EditTaskLists, cs \in EditCategoryLists }
    \cup { TasksReply(401, << >>, << >>) }

\* The texts handed to updatePercentage.
EditValues ==
    { << >>, << "0" >>, << "1", "0", "0" >>, << "1", "0", "1" >>, << "-", "1" >>,
      << "a", "b", "c" >>, << "0", ".", "5" >> }

\* new Date().getMonth() at the fetch
CurrentMonths == { 0, 8 }

\* openClass(cls): the tasks view, and fetchTasks answered with r.
OpenClass(r, currentMonth) ==
    /\ pc = "classes"
    /\ SetRefs(App_fetchTasks(Refs, r, currentMonth), "tasks")
    /\ reply' = r
    /\ edit' = NoEdit
    /\ UNCHANGED << userSessions, now, last, pointsVars, serverGrade, clientGrade, document, pipelines >>

\* @input of the row's number field
UpdatePercentage(row, value) ==
    /\ pc = "tasks"
    /\ SetRefs(updatePercentage(Refs, row[1], row[2], value), "tasks")
    /\ edit' = Edit("set", row[1], row[2], value)
    /\ UNCHANGED << userSessions, now, last, pointsVars, serverGrade, clientGrade, fetchVars >>

\* @click of the row's Reset button, shown v-if isTaskModified
RestoreOriginalValue(row) ==
    /\ pc = "tasks"
    /\ isTaskModified(Refs, row[1], row[2])
    /\ SetRefs(restoreOriginalValue(Refs, row[1], row[2]), "tasks")
    /\ edit' = Edit("restore", row[1], row[2], << >>)
    /\ UNCHANGED << userSessions, now, last, pointsVars, serverGrade, clientGrade, fetchVars >>

BackToClasses ==
    /\ pc = "tasks"
    /\ SetRefs(backToClasses(Refs), "classes")
    /\ edit' = NoEdit
    /\ reply' = << >>
    /\ UNCHANGED << userSessions, now, last, pointsVars, serverGrade, clientGrade, document, pipelines >>

Logout ==
    /\ pc \in { "classes", "tasks" }
    /\ SetRefs(logout(Refs), "classes")
    /\ edit' = NoEdit
    /\ reply' = << >>
    /\ UNCHANGED << userSessions, now, last, pointsVars, serverGrade, clientGrade, document, pipelines >>

-----------------------------------------------------------------------------
(* fetchCategories: the categories of the units page.  The page is the     *)
(* list of its list-item fragments; a fragment has its label element when  *)
(* it has both a color and a label text, and its weight cell when it has a  *)
(* weight.  Label texts stand for themselves, trimmed and decoded.          *)

\* The most list-item fragments of a units page in the model.
MaxFragments == 3

CategoryFragments ==
    [ color : { None, Some("#f00") },
      label : { None, Some("A"), Some("B") },
      weight : { None, Some(<< "1" >>), Some(<< "2" >>) } ]

CategoryFragmentLists == UNION { [ 1..n -> CategoryFragments ] : n \in 0..MaxFragments }

\* The elements of one fragment that categoryItemRegex can match, in the
\* order of the page: <div class='list-item'>, the label element with its
\* --f-label-bg style, <div class='cell'>..%</div>.
Elements(frags, i) ==
    << [ kind |-> "item", of |-> i ] >>
    \o ( IF frags[i].color # None /\ frags[i].label # None
           THEN << [ kind |-> "label", of |-> i ] >> ELSE << >> )
    \o ( IF frags[i].weight # None
           THEN << [ kind |-> "cell", of |-> i ] >> ELSE << >> )

RECURSIVE PageElements(_, _)
PageElements(frags, i) ==
    IF i > Len(frags) THEN << >>
    ELSE Elements(frags, i) \o PageElements(frags, i + 1)

\* The place of the first element of that kind at or after place p, 0 when
\* there is none.
FirstOf(els, kind, p) ==
    LET at == { k \in p..Len(els) : els[k].kind = kind }
    IN  IF p = 0 \/ at = { } THEN 0 ELSE CHOOSE k \in at : \A j \in at : k <= j

\* categoryItemRegex.exec from lastIndex p: a list-item, then lazily
\* ([\s\S]*?) the next label element, then lazily the next weight cell,
\* whatever lies between them.
RegexExec(els, p) ==
    LET item  == FirstOf(els, "item", p)
        label == FirstOf(els, "label", item)
        cell  == FirstOf(els, "cell", label)
    IN  [ matched |-> cell # 0, label |-> label, cell |-> cell ]

\* The while loop of fetchCategories from lastIndex p.
RECURSIVE PushCategories(_, _, _)
PushCategories(frags, els, p) ==
    LET match == RegexExec(els, p)
    IN  IF p > Len(els) \/ ~ match.matched THEN << >>
        ELSE << [ name   |-> frags[els[match.label].of].label[1],
                  weight |-> parseInt(frags[els[match.cell].of].weight[1]).value,
                  color  |-> frags[els[match.label].of].color[1] ] >>
             \o PushCategories(frags, els, match.cell + 1)

\* fetchCategories for a page that was fetched
fetchCategories(frags) == PushCategories(frags, PageElements(frags, 1), 1)

\* The category extraction of GET /api/tasks/:classId and /api/classes.
ExtractCategories ==
    /\ pc = "units"
    /\ reply' = fetchCategories(document)
    /\ pc' = "extracted"
    /\ UNCHANGED << sessionVars, pointsVars, gradeVars, editVars, document, pipelines >>

-----------------------------------------------------------------------------
(* fetchTasks of the server: the tasks of the core_tasks page.  The page   *)
(* is the list of the blocks taskBlockRegex matches; of a block it keeps   *)
(* what each pattern captures in it (None: the pattern does not match).    *)
(* The name, label and grade texts stand for themselves, trimmed and       *)
(* decoded.                                                                 *)

\* The most task blocks of a core_tasks page in the model.
MaxBlocks == 2

TaskBlocks ==
    [ anchor : { None, Some([ taskId |-> "7", name |-> "T" ]) },
      month  : { None, Some(<< "S", "e", "p" >>), Some(<< "J", "a", "n" >>) },
      day    : { None, Some(<< "1" >>) },
      labels : { << "Summative", "A" >> },
      points : { None, Some(<< "0", "/", "1" >>) },
      grade  : { Some("7") } ]

TaskBlockLists == UNION { [ 1..n -> TaskBlocks ] : n \in 0..MaxBlocks }

\* The units page that goes with them.
UnitsPage == << [ color |-> Some("#f00"), label |-> Some("A"), weight |-> Some(<< "1" >>) ] >>

\* The object tasks.push gets for a block with a name anchor.
PushedTask(block, taskIndex) ==
    LET monthMatch == block.month
        dayMatch   == block.day
        scored     == TaskOf(Fragment(TRUE, block.points))[1]
    IN  [ id       |-> taskIndex,
          taskId   |-> block.anchor[1].taskId,
          name     |-> block.anchor[1].name,
          date     |-> IF monthMatch # None /\ dayMatch # None
                         THEN Some(extractText(monthMatch)[1] \o << " " >>
                                     \o extractText(dayMatch)[1])
                         ELSE None,
          category |-> IF Len(block.labels) > 1 THEN block.labels[2] ELSE NULL,
          points   |-> scored.points,
          grade    |-> block.grade,
          percentage |-> scored.percentage ]

\* The while loop of fetchTasks over blocks[i..], with taskIndex tasks pushed.
RECURSIVE PushTasks(_, _, _)
PushTasks(blocks, i, taskIndex) ==
    IF i > Len(blocks) THEN << >>
    ELSE IF blocks[i].anchor = None
           THEN PushTasks(blocks, i + 1, taskIndex)
           ELSE << PushedTask(blocks[i], taskIndex) >>
                \o PushTasks(blocks, i + 1, taskIndex + 1)

\* fetchTasks for a page that was fetched
fetchTasks(blocks) == PushTasks(blocks, 1, 0)

\* GET /api/tasks/:classId for a valid session and pages that were fetched:
\* res.json({ tasks, categories }).
ServeTasks ==
    /\ pc = "pages"
    /\ reply' = TasksReply(200, fetchTasks(document.core_tasks),
                           fetchCategories(document.units))
    /\ pc' = "sent"
    /\ UNCHANGED << sessionVars, pointsVars, gradeVars, editVars, document, pipelines >>

\* fetchTasks of the client from its await on: the answer is processed.
ReceiveTasks(currentMonth) ==
    /\ pc = "sent"
    /\ SetRefs(App_fetchTasks(Refs, reply, currentMonth), "tasks")
    /\ edit' = NoEdit
    /\ UNCHANGED << userSessions, now, last, pointsVars, serverGrade, clientGrade, fetchVars >>

-----------------------------------------------------------------------------
(* GET /api/classes for a valid session: the classes of the class list     *)
(* page, each with the final grade of its own units and core_tasks pages.  *)

\* The most classes of the class list in the model.
MaxClasses == 2

\* Task blocks with 0 % and with 100 %.
ScoredBlock(points) ==
    [ anchor |-> Some([ taskId |-> "7", name |-> "T" ]),
      month  |-> Some(<< "S", "e", "p" >>),
      day    |-> Some(<< "1" >>),
      labels |-> << "Summative", "A" >>,
      points |-> Some(points),
      grade  |-> Some("7") ]

\* What the portal does for one class: each of its two pages is fetched
\* (ok) or the axios.get for it throws.
ClassPages ==
    [ unitsOk : BOOLEAN,
      units : { UnitsPage },
      tasksOk : BOOLEAN,
      core_tasks : { << >>,
                     << ScoredBlock(<< "0", "/", "1" >>) >>,
                     << ScoredBlock(<< "1", "/", "1" >>) >>,
                     << ScoredBlock(<< "0", "/", "1" >>), ScoredBlock(<< "1", "/", "1" >>) >> } ]

ClassPageLists == UNION { [ 1..n -> ClassPages ] : n \in 0..MaxClasses }

\* fetchCategories and fetchTasks with their catch: [] when the fetch throws.
categoriesOrNone(page) == IF page.unitsOk THEN fetchCategories(page.units) ELSE << >>

tasksOrNone(page) == IF page.tasksOk THEN fetchTasks(page.core_tasks) ELSE << >>

\* The element of classesWithGrades for the i-th class.
classWithGrade(page, i) ==
    [ id |-> i,
      finalGrade |-> calculateFinalGrade(tasksOrNone(page), categoriesOrNone(page)) ]

\* The try block with a Promise.all that rejects when a page of a class
\* could not be fetched.
classesAnswer_FailFast(doc) ==
    IF ~ doc.ok \/ \E i \in DOMAIN doc.classes :
                      ~ doc.classes[i].unitsOk \/ ~ doc.classes[i].tasksOk
      THEN [ status |-> 500, error |-> "Failed to fetch classes", classes |-> << >> ]
      ELSE [ status |-> 200, error |-> NULL,
             classes |-> [ i \in DOMAIN doc.classes |-> classWithGrade(doc.classes[i], i) ] ]

\* The try block of the handler: 500 when the class list page cannot be
\* fetched, else res.json({ classes: classesWithGrades }).
classesAnswer(doc) ==
    IF ~ doc.ok
      THEN [ status |-> 500, error |-> "Failed to fetch classes", classes |-> << >> ]
      ELSE [ status |-> 200, error |-> NULL,
             classes |-> [ i \in DOMAIN doc.classes |-> classWithGrade(doc.classes[i], i) ] ]

ServeClasses ==
    /\ pc = "my"
    /\ reply' = classesAnswer(document)
    /\ pc' = "graded"
    /\ UNCHANGED << sessionVars, pointsVars, gradeVars, editVars, document, pipelines >>

\* The handler of GET /api/classes step by step.  classes.map calls the async
\* callback for every class before Promise.all awaits anything, and the
\* callback runs up to its own await, so each class has asked for both of
\* its pages by then.
MaxPipelines == 3

\* The class lists of the step-by-step handler: a class whose pages are both
\* fetched, and one whose core_tasks page is not.
PipelinePages ==
    { page \in ClassPages :
        /\ page.unitsOk
        /\ page.core_tasks = << ScoredBlock(<< "1", "/", "1" >>) >> }

PipelinePageLists == UNION { [ 1..n -> PipelinePages ] : n \in 0..MaxPipelines }

\* The promise of one class: the two requests of its inner Promise.all.
Pipeline(units, core_tasks) == [ units |-> units, core_tasks |-> core_tasks ]

\* A pipeline is in flight from the call of the callback until both of its
\* fetches have settled and calculateFinalGrade has run on them.
InFlight(pipeline) == pipeline.units = "pending" \/ pipeline.core_tasks = "pending"

PipelinesInFlight(ps) == Cardinality({ i \in DOMAIN ps : InFlight(ps[i]) })

\* Lines 304-326: the class list is fetched and classes.map starts the
\* pipeline of every class; the outer catch answers 500 when the list page
\* cannot be fetched.
MapClasses ==
    /\ pc = "my"
    /\ IF document.ok
         THEN /\ pipelines' = [ i \in DOMAIN document.classes |-> Pipeline("pending", "pending") ]
              /\ pc' = "mapped"
              /\ UNCHANGED reply
         ELSE /\ reply' = classesAnswer(document)
              /\ pc' = "graded"
              /\ UNCHANGED pipelines
    /\ UNCHANGED << sessionVars, pointsVars, gradeVars, editVars, document >>

\* fetchCategories of one class returns (its catch makes it return always).
SettleCategories(i) ==
    /\ pc = "mapped"
    /\ i \in DOMAIN pipelines
    /\ pipelines[i].units = "pending"
    /\ pipelines' = [ pipelines EXCEPT ![i].units = "settled" ]
    /\ UNCHANGED << sessionVars, pointsVars, gradeVars, editVars, document, reply, pc >>

\* fetchTasks of one class returns.
SettleTasks(i) ==
    /\ pc = "mapped"
    /\ i \in DOMAIN pipelines
    /\ pipelines[i].core_tasks = "pending"
    /\ pipelines' = [ pipelines EXCEPT ![i].core_tasks = "settled" ]
    /\ UNCHANGED << sessionVars, pointsVars, gradeVars, editVars, document, reply, pc >>

\* The outer Promise.all resolves once every pipeline has, and res.json
\* sends classesWithGrades.
SendClasses ==
    /\ pc = "mapped"
    /\ PipelinesInFlight(pipelines) = 0
    /\ reply' = classesAnswer(document)
    /\ pc' = "graded"
    /\ UNCHANGED << sessionVars, pointsVars, gradeVars, editVars, document, pipelines >>


-----------------------------------------------------------------------------
(* Session store                                                            *)

SESSION_TIMEOUT == 48 * 60 * 60 * 1000

\* The values crypto.randomBytes(32).toString('hex') can return.
SessionIds == { "s1", "s2" }

\* req.cookies.sessionId when the request carries no such cookie.
NoSid == UNDEFINED

\* How many whole timeouts the clock may run in the model.
MaxPeriods == 2

\* The delays between one handled request and the next.
Delays == { 0, SESSION_TIMEOUT - 1, SESSION_TIMEOUT }

MaxNow == MaxPeriods * SESSION_TIMEOUT

\* The most Set-Cookie values the portal's credential response carries.
MaxCookies == 2

\* One Set-Cookie header value: the name=value pair and its attributes.
SetCookieValue == [ pair |-> "_managebac_session=abc", attrs |-> "; path=/; HttpOnly" ]

SetCookieLists == UNION { [ 1..n -> { SetCookieValue } ] : n \in 0..MaxCookies }

\* c.split(';')[0]
CookiePair(c) == c.pair

\* sessionCookies.map(c => c.split(';')[0]).join('; '): the pairs in order.
CookieString(cs) == [ i \in 1..Len(cs) |-> CookiePair(cs[i]) ]

isSessionValid_Inclusive(session, t) ==
    t - session.lastAccess <= SESSION_TIMEOUT

\* A session that is in the store (the !session case is getValidSession's).
isSessionValid(session, t) ==
    t - session.lastAccess < SESSION_TIMEOUT

Remove(store, sid) == [ s \in DOMAIN store \ { sid } |-> store[s] ]

Put(store, sid, session) ==
    [ s \in DOMAIN store \cup { sid } |-> IF s = sid THEN session ELSE store[s] ]

getValidSession_NoTouch(store, sid, t) ==
    IF sid \notin DOMAIN store
      THEN [ ok |-> FALSE, found |-> FALSE, store |-> store ]
      ELSE IF ~ isSessionValid(store[sid], t)
        THEN [ ok |-> FALSE, found |-> TRUE, store |-> Remove(store, sid) ]
        ELSE [ ok |-> TRUE, found |-> TRUE, store |-> store ]

getValidSession_NoDelete(store, sid, t) ==
    IF sid \notin DOMAIN store
      THEN [ ok |-> FALSE, found |-> FALSE, store |-> store ]
      ELSE IF ~ isSessionValid(store[sid], t)
        THEN [ ok |-> FALSE, found |-> TRUE, store |-> store ]
        ELSE [ ok |-> TRUE, found |-> TRUE,
               store |-> Put(store, sid, [ store[sid] EXCEPT !.lastAccess = t ]) ]

\* ok: a session is returned (else null); found: userSessions.get gave an
\* entry; store: userSessions afterwards.
getValidSession(store, sid, t) ==
    IF sid \notin DOMAIN store
      THEN [ ok |-> FALSE, found |-> FALSE, store |-> store ]
      ELSE IF ~ isSessionValid(store[sid], t)
        THEN [ ok |-> FALSE, found |-> TRUE, store |-> Remove(store, sid) ]
        ELSE [ ok |-> TRUE, found |-> TRUE,
               store |-> Put(store, sid, [ store[sid] EXCEPT !.lastAccess = t ]) ]

\* A response: status, the error text or NULL, whether the body carries
\* class or task data, the body's sessionId field (UNDEFINED when it has
\* none) and the sessionId cookie the response sets (NULL: none set,
\* "cleared": clearCookie).
Response(status, message, data, bodySid, setCookie) ==
    [ status |-> status, error |-> message, data |-> data,
      bodySessionId |-> bodySid, setCookie |-> setCookie ]

\* What the upstream portal did in a request; "notcalled" where the handler
\* returned before the call.
\*   token: GET /login ("ok", "notoken": no authenticity_token in the page,
\*          "neterr": axios threw)
\*   post:  POST /sessions ("response" or "neterr"), with marker (the body
\*          contains 'Invalid login or password') and setCookies
\*   fetch: the data pages ("ok" or "fail")
NoUpstream ==
    [ token |-> "notcalled", post |-> "notcalled", marker |-> FALSE,
      setCookies |-> << >>, fetch |-> "notcalled" ]

\* The request handled (op, the sessionId cookie it carried, the login
\* body), whether the rate limiter stopped it, whether the store held an
\* entry for sid when the handler looked, the upstream's part, the response.
Request(op, sid, username, password, limited, found, upstream, res) ==
    [ op |-> op, sid |-> sid, username |-> username, password |-> password,
      limited |-> limited, found |-> found, upstream |-> upstream, res |-> res ]

NoRequest ==
    Request("none", NoSid, "", "", FALSE, FALSE, NoUpstream,
            Response(0, NULL, FALSE, UNDEFINED, NULL))

\* The outcomes of the login's two upstream calls, as far as the handler
\* gets: getAuthenticityToken fails, or the POST fails, or it answers.
LoginUpstreams ==
    { [ NoUpstream EXCEPT !.token = tk ] : tk \in { "notoken", "neterr" } }
    \cup { [ NoUpstream EXCEPT !.token = "ok", !.post = "neterr" ] }
    \cup { [ NoUpstream EXCEPT !.token = "ok", !.post = "response",
                               !.marker = m, !.setCookies = cs ] :
             m \in BOOLEAN, cs \in SetCookieLists }

Usernames == { "", "alice" }
Passwords == { "", "secret" }

\* The response of POST /api/login and the store after it.
LoginOutcome_CookiesFirst(store, t, username, password, up, newSid) ==
    IF username = "" \/ password = ""
      THEN [ store |-> store,
             res |-> Response(400, "Username and password required", FALSE, UNDEFINED, NULL) ]
    ELSE IF up.token # "ok" \/ up.post # "response"
      THEN [ store |-> store,
             res |-> Response(401, "Login failed - please check your credentials",
                              FALSE, UNDEFINED, NULL) ]
    ELSE IF Len(up.setCookies) = 0
      THEN [ store |-> store,
             res |-> Response(401, "Login failed", FALSE, UNDEFINED, NULL) ]
    ELSE IF up.marker
      THEN [ store |-> store,
             res |-> Response(401, "Invalid username or password", FALSE, UNDEFINED, NULL) ]
    ELSE [ store |-> Put(store, newSid,
                         [ username |-> username,
                           cookie |-> CookieString(up.setCookies),
                           createdAt |-> t, lastAccess |-> t ]),
           res |-> Response(200, NULL, FALSE, UNDEFINED, newSid) ]

LoginOutcome(store, t, username, password, up, newSid) ==
    IF username = "" \/ password = ""
      THEN [ store |-> store,
             res |-> Response(400, "Username and password required", FALSE, UNDEFINED, NULL) ]
    ELSE IF up.token # "ok" \/ up.post # "response"
      \* getAuthenticityToken or axios.post threw: the catch at line 277
      THEN [ store |-> store,
             res |-> Response(401, "Login failed - please check your credentials",
                              FALSE, UNDEFINED, NULL) ]
    ELSE IF up.marker
      THEN [ store |-> store,
             res |-> Response(401, "Invalid username or password", FALSE, UNDEFINED, NULL) ]
    ELSE IF Len(up.setCookies) = 0
      THEN [ store |-> store,
             res |-> Response(401, "Login failed", FALSE, UNDEFINED, NULL) ]
    ELSE [ store |-> Put(store, newSid,
                         [ username |-> username,
                           cookie |-> CookieString(up.setCookies),
                           createdAt |-> t, lastAccess |-> t ]),
           \* res.cookie('sessionId', sessionId, ...); res.json({ success: true })
           res |-> Response(200, NULL, FALSE, UNDEFINED, newSid) ]

\* handleLogin: on a 2xx answer with data.success, sessionId.value =
\* data.sessionId; axios throws on every other status.
handleLogin(ref, res) ==
    IF res.status = 200 THEN res.bodySessionId ELSE ref

\* fetchClasses / fetchTasks: a 401 answer calls logout(), which sets
\* sessionId.value = null.
handleFetch(ref, res) ==
    IF res.status = 401 THEN NULL ELSE ref

\* loginLimiter answers 429 before the handler runs.
LoginLimited(d) ==
    /\ now' = now + d
    /\ last' = Request("login", NoSid, "alice", "secret", TRUE, FALSE, NoUpstream,
                       Response(429, "Too many login attempts, please try again later",
                                FALSE, UNDEFINED, NULL))
    /\ UNCHANGED << userSessions, sessionId, pureVars >>

\* The login requests and what the upstream and generateSessionId do in
\* each, as far as the handler gets ("notcalled" beyond its return).
LoginInputs ==
    { [ username |-> c[1], password |-> c[2], up |-> NoUpstream, newSid |-> "notcalled" ] :
        c \in { x \in Usernames \X Passwords : x[1] = "" \/ x[2] = "" } }
    \cup { [ username |-> "alice", password |-> "secret", up |-> up,
             newSid |-> "notcalled" ] :
             up \in { x \in LoginUpstreams :
                        x.post # "response" \/ x.marker \/ Len(x.setCookies) = 0 } }
    \cup { [ username |-> "alice", password |-> "secret", up |-> up, newSid |-> n ] :
             up \in { x \in LoginUpstreams :
                        x.post = "response" /\ ~ x.marker /\ Len(x.setCookies) > 0 },
             n \in SessionIds }

\* POST /api/login (the handler does not read the sessionId cookie)
ApiLogin(d, in) ==
    LET t   == now + d
        out == LoginOutcome(userSessions, t, in.username, in.password, in.up, in.newSid)
    IN  /\ now' = t
        /\ userSessions' = out.store
        /\ last' = Request("login", NoSid, in.username, in.password, FALSE, FALSE,
                           in.up, out.res)
        /\ sessionId' = IF in.username = "" \/ in.password = ""
                          THEN sessionId
                          ELSE handleLogin(sessionId, out.res)
        /\ UNCHANGED pureVars

LogoutStore_All(store, sid) ==
    IF sid = NoSid THEN store ELSE << >>

LogoutStore(store, sid) ==
    IF sid = NoSid THEN store ELSE Remove(store, sid)

\* POST /api/logout
ApiLogout(sid, d) ==
    /\ now' = now + d
    /\ userSessions' = LogoutStore(userSessions, sid)
    /\ last' = Request("logout", sid, "", "", FALSE, sid \in DOMAIN userSessions,
                       NoUpstream, Response(200, NULL, FALSE, UNDEFINED, "cleared"))
    /\ UNCHANGED << sessionId, pureVars >>

\* The part the two data routes share: the 400 and 401 answers, or the
\* answer `ok` built from the upstream fetch.
DataOutcome_NoMissingCheck(store, t, sid, ok) ==
    LET got == getValidSession(store, sid, t)
    IN  IF ~ got.ok
          THEN [ store |-> got.store, found |-> got.found, called |-> FALSE,
                 res |-> Response(401, "Session expired or invalid", FALSE, UNDEFINED, NULL) ]
          ELSE [ store |-> got.store, found |-> TRUE, called |-> TRUE, res |-> ok ]

DataOutcome(store, t, sid, ok) ==
    IF sid = NoSid
      THEN [ store |-> store, found |-> FALSE, called |-> FALSE,
             res |-> Response(400, "Session ID required", FALSE, UNDEFINED, NULL) ]
      ELSE LET got == getValidSession(store, sid, t)
           IN  IF ~ got.ok
                 THEN [ store |-> got.store, found |-> got.found, called |-> FALSE,
                        res |-> Response(401, "Session expired or invalid",
                                         FALSE, UNDEFINED, NULL) ]
                 \* getValidSession(sessionId, res) refreshed the cookie
                 ELSE [ store |-> got.store, found |-> TRUE, called |-> TRUE, res |-> ok ]

\* GET /api/classes: the class list page failing is the 500 answer.
ClassesResponse(sid, fetch) ==
    IF fetch = "ok"
      THEN Response(200, NULL, TRUE, UNDEFINED, sid)
      ELSE Response(500, "Failed to fetch classes", FALSE, UNDEFINED, sid)

\* GET /api/tasks/:classId: fetchCategories and fetchTasks catch their own
\* errors and return [], so the answer is 200 whatever the upstream did.
TasksResponse(sid, fetch) ==
    Response(200, NULL, TRUE, UNDEFINED, sid)

ApiData(op, sid, d, fetch) ==
    LET t   == now + d
        ok  == IF op = "classes" THEN ClassesResponse(sid, fetch)
                                 ELSE TasksResponse(sid, fetch)
        out == DataOutcome(userSessions, t, sid, ok)
        up  == IF out.called THEN [ NoUpstream EXCEPT !.fetch = fetch ] ELSE NoUpstream
    IN  /\ now' = t
        /\ userSessions' = out.store
        /\ last' = Request(op, sid, "", "", FALSE, out.found, up, out.res)
        /\ sessionId' = handleFetch(sessionId, out.res)
        /\ UNCHANGED pureVars

ApiClasses(sid, d, fetch) == ApiData("classes", sid, d, fetch)

ApiTasks(sid, d, fetch) == ApiData("tasks", sid, d, fetch)

Cookies == SessionIds \cup { NoSid }

SessionInit ==
    /\ userSessions = << >>
    /\ now = 0
    /\ last = NoRequest
    /\ sessionId = NULL

\* The delays the clock's cap leaves room for.
Elapse == { d \in Delays : now + d <= MaxNow }

EditIdle ==
    /\ originalGradeAverages = << >>
    /\ error = ""
    /\ edit = NoEdit

FetchIdle ==
    /\ document = << >>
    /\ reply = << >>
    /\ pipelines = << >>

PureIdle ==
    /\ EditIdle
    /\ FetchIdle
    /\ given = NoGiven
    /\ fragment = NoFragment
    /\ task = None
    /\ pc = "idle"
    /\ tasks = << >>
    /\ categories = << >>
    /\ serverGrade = None
    /\ clientGrade = None

Init == SessionInit /\ PureIdle

Next ==
    \/ \E d \in Elapse : LoginLimited(d)
    \/ \E d \in Elapse, in \in LoginInputs : ApiLogin(d, in)
    \/ \E d \in Elapse, sid \in Cookies : ApiLogout(sid, d)
    \/ \E d \in Elapse, sid \in Cookies, fetch \in { "ok", "fail" } :
          ApiClasses(sid, d, fetch)
    \/ \E d \in Elapse, sid \in Cookies, fetch \in { "ok", "fail" } :
          ApiTasks(sid, d, fetch)

Spec == Init /\ [][Next]_vars

GradeIdle ==
    /\ tasks = << >>
    /\ categories = << >>
    /\ serverGrade = None
    /\ clientGrade = None

\* The extraction of one task fragment, for every fragment of the model.
InitPoints ==
    /\ SessionInit
    /\ GradeIdle
    /\ EditIdle
    /\ FetchIdle
    /\ given \in Givens
    /\ \E anchor \in BOOLEAN, pts \in PointsTexts(given) :
          fragment = Fragment(anchor, pts)
    /\ task = None
    /\ pc = "fragment"

NextPoints == ExtractTask

SpecPoints == InitPoints /\ [][NextPoints]_vars

PointsIdle ==
    /\ given = NoGiven
    /\ fragment = NoFragment
    /\ task = None

\* The aggregation of one class's tasks and categories, for every list of
\* the model.
InitGrade ==
    /\ SessionInit
    /\ PointsIdle
    /\ EditIdle
    /\ FetchIdle
    /\ tasks \in TaskLists
    /\ categories \in CategoryLists
    /\ serverGrade = None
    /\ clientGrade = None
    /\ pc = "fetched"

NextGrade == ListClass \/ ShowClass

SpecGrade == InitGrade /\ [][NextGrade]_vars

\* localStorage's 'sessionId' item as handleLogin stored it: the text of
\* data.sessionId, which the login answer does not have.
SavedSessionId == "'undefined'"

\* The client after onMounted found that item: the class list is shown.
InitEdit ==
    /\ userSessions = << >>
    /\ now = 0
    /\ last = NoRequest
    /\ sessionId = SavedSessionId
    /\ PointsIdle
    /\ GradeIdle
    /\ EditIdle
    /\ FetchIdle
    /\ pc = "classes"

NextEdit ==
    \/ \E r \in EditReplies, m \in CurrentMonths : OpenClass(r, m)
    \/ \E row \in Coordinates, v \in EditValues : UpdatePercentage(row, v)
    \/ \E row \in Coordinates : RestoreOriginalValue(row)
    \/ BackToClasses
    \/ Logout

SpecEdit == InitEdit /\ [][NextEdit]_vars

\* The extraction of the categories of every units page of the model.
InitCategories ==
    /\ SessionInit
    /\ PointsIdle
    /\ GradeIdle
    /\ EditIdle
    /\ document \in CategoryFragmentLists
    /\ reply = << >>
    /\ pipelines = << >>
    /\ pc = "units"

NextCategories == ExtractCategories

SpecCategories == InitCategories /\ [][NextCategories]_vars

\* The client has opened a class: every core_tasks page of the model.
InitFetch ==
    /\ userSessions = << >>
    /\ now = 0
    /\ last = NoRequest
    /\ sessionId = SavedSessionId
    /\ PointsIdle
    /\ GradeIdle
    /\ EditIdle
    /\ \E blocks \in TaskBlockLists :
          document = [ core_tasks |-> blocks, units |-> UnitsPage ]
    /\ reply = << >>
    /\ pipelines = << >>
    /\ pc = "pages"

NextFetch == ServeTasks \/ \E m \in CurrentMonths : ReceiveTasks(m)

SpecFetch == InitFetch /\ [][NextFetch]_vars

\* The class list of every portal of the model.
InitClasses ==
    /\ SessionInit
    /\ PointsIdle
    /\ GradeIdle
    /\ EditIdle
    /\ \E ok \in BOOLEAN, pages \in ClassPageLists :
          document = [ ok |-> ok, classes |-> pages ]
    /\ reply = << >>
    /\ pipelines = << >>
    /\ pc = "my"

NextClasses == ServeClasses

SpecClasses == InitClasses /\ [][NextClasses]_vars

\* GET /api/classes step by step, for every class list of up to
\* MaxPipelines classes.
InitPipelines ==
    /\ SessionInit
    /\ PointsIdle
    /\ GradeIdle
    /\ EditIdle
    /\ \E ok \in BOOLEAN, pages \in PipelinePageLists :
          document = [ ok |-> ok, classes |-> pages ]
    /\ reply = << >>
    /\ pipelines = << >>
    /\ pc = "my"

NextPipelines ==
    \/ MapClasses
    \/ \E i \in 1..MaxPipelines : SettleCategories(i)
    \/ \E i \in 1..MaxPipelines : SettleTasks(i)
    \/ SendClasses

SpecPipelines == InitPipelines /\ [][NextPipelines]_vars

-----------------------------------------------------------------------------
(* Claims about the session store and the routes (specification Spec).     *)
(* Every step of Spec that changes the state handles one request, which    *)
(* last' records; now' is the time it was handled at.                      *)

IsData(r) == r.op \in { "classes", "tasks" }

\* The age the session of sid has when a request is handled at time t.
Age(store, sid, t) == t - store[sid].lastAccess

Unauthorized == Response(401, "Session expired or invalid", FALSE, UNDEFINED, NULL)

\* C1: a get of a session that is present and younger than the timeout
\* succeeds and sets its lastAccess to the current time, whatever its
\* createdAt, so the timeout runs from the last successful access.
C1_SlidingExpiry ==
    [][ \A s \in SessionIds :
          ( /\ IsData(last') /\ last'.sid = s
            /\ s \in DOMAIN userSessions
            /\ Age(userSessions, s, now') < SESSION_TIMEOUT )
          => /\ s \in DOMAIN userSessions'
             /\ userSessions'[s].lastAccess = now'
             /\ userSessions'[s].createdAt = userSessions[s].createdAt
             /\ last'.res.status # 401 ]_vars

\* A session created more than a timeout ago has just been read successfully.
C1_Witness ==
    \E s \in DOMAIN userSessions :
        /\ IsData(last) /\ last.sid = s /\ last.res.status = 200
        /\ userSessions[s].lastAccess = now
        /\ now - userSessions[s].createdAt > SESSION_TIMEOUT

\* C2: a get of a session whose timeout has elapsed removes the entry and
\* answers 401; a lookup of an id that is not in the store answers the
\* same 401 and leaves the store as it is; and an id that is not in the
\* store enters it only by a successful login that generates it.
C2_ExpiredIsRemoved ==
    [][ \A s \in SessionIds :
          /\ ( /\ IsData(last') /\ last'.sid = s
               /\ s \in DOMAIN userSessions
               /\ Age(userSessions, s, now') >= SESSION_TIMEOUT )
             => /\ s \notin DOMAIN userSessions'
                /\ last'.res = Unauthorized
          /\ ( IsData(last') /\ last'.sid = s /\ s \notin DOMAIN userSessions )
             => /\ userSessions' = userSessions
                /\ last'.res = Unauthorized
          /\ ( s \notin DOMAIN userSessions /\ s \in DOMAIN userSessions' )
             => /\ last'.op = "login" /\ last'.res.status = 200
                /\ last'.res.setCookie = s ]_vars

\* A data request found an entry, answered 401, and the entry is gone.
C2_Witness ==
    /\ IsData(last) /\ last.found /\ last.res.status = 401
    /\ last.sid \notin DOMAIN userSessions

\* C3 as claimed: a get made when now - lastAccess is exactly the timeout
\* (or less) still succeeds and keeps the session.
C3_Original ==
    [][ \A s \in SessionIds :
          ( /\ IsData(last') /\ last'.sid = s
            /\ s \in DOMAIN userSessions
            /\ Age(userSessions, s, now') <= SESSION_TIMEOUT )
          => /\ s \in DOMAIN userSessions'
             /\ last'.res.status # 401 ]_vars

\* C3 as amended: a get of a stored session succeeds exactly when
\* now - lastAccess < timeout; at now - lastAccess = timeout (and beyond) it
\* answers 401 and the session is destroyed.
C3_ExpiryBoundary ==
    [][ \A s \in SessionIds :
          ( IsData(last') /\ last'.sid = s /\ s \in DOMAIN userSessions )
          => ( ( s \in DOMAIN userSessions' /\ last'.res.status # 401 )
               <=> Age(userSessions, s, now') < SESSION_TIMEOUT ) ]_vars

\* At time = timeout a get found a session (so one last read at time 0)
\* and answered 401.
C3_Witness ==
    /\ now = SESSION_TIMEOUT
    /\ IsData(last) /\ last.found /\ last.res.status = 401

\* The request's session identifier is not one of a live session at time t.
Invalid(store, sid, t) ==
    \/ sid \notin DOMAIN store
    \/ Age(store, sid, t) >= SESSION_TIMEOUT

\* C4 as claimed: a data request with no session identifier, and one with
\* an unknown or expired identifier, both get 401 and no data.
C4_Original ==
    [][ ( IsData(last') /\ ( last'.sid = NoSid \/ Invalid(userSessions, last'.sid, now') ) )
        => ( last'.res.status = 401 /\ ~ last'.res.data ) ]_vars

\* C4 as amended: a data request with no session identifier gets 400, one
\* with an unknown or expired identifier gets 401, and neither gets data.
C4_MissingOrInvalid ==
    [][ IsData(last')
        => /\ last'.sid = NoSid
              => ( last'.res.status = 400 /\ ~ last'.res.data )
           /\ ( last'.sid # NoSid /\ Invalid(userSessions, last'.sid, now') )
              => ( last'.res.status = 401 /\ ~ last'.res.data ) ]_vars

\* A data request without a session identifier was answered 400.
C4_Witness ==
    /\ IsData(last) /\ last.sid = NoSid
    /\ last.res.status = 400 /\ ~ last.res.data

\* C5: after a successful login the response body's sessionId is the id the
\* session was stored under, and the client's sessionId ref holds it.
C5_LoginBodyCarriesSessionId ==
    ( last.op = "login" /\ last.res.status = 200 )
    => /\ last.res.bodySessionId \in DOMAIN userSessions
       /\ last.res.bodySessionId = last.res.setCookie
       /\ sessionId = last.res.bodySessionId

\* C6: a logout for s leaves s out of the store and every other session as
\* it was; a data request carrying an id that is not in the store gets
\* 401; and such an id enters the store only by a successful login.
C6_Logout ==
    [][ \A s \in SessionIds :
          /\ ( last'.op = "logout" /\ last'.sid = s )
             => /\ s \notin DOMAIN userSessions'
                /\ DOMAIN userSessions' = DOMAIN userSessions \ { s }
                /\ \A o \in DOMAIN userSessions' : userSessions'[o] = userSessions[o]
          /\ ( IsData(last') /\ last'.sid = s /\ s \notin DOMAIN userSessions )
             => last'.res.status = 401
          /\ ( s \notin DOMAIN userSessions /\ s \in DOMAIN userSessions' )
             => ( last'.op = "login" /\ last'.res.status = 200 ) ]_vars

\* A logout removed a stored session while another session stayed.
C6_Witness ==
    /\ last.op = "logout" /\ last.found
    /\ last.sid \notin DOMAIN userSessions
    /\ DOMAIN userSessions # { }

\* The credential response was obtained and qualifies for a session.
Qualifies(r) ==
    /\ ~ r.limited /\ r.username # "" /\ r.password # ""
    /\ r.upstream.token = "ok" /\ r.upstream.post = "response"
    /\ ~ r.upstream.marker
    /\ Len(r.upstream.setCookies) >= 1

\* C7: a login creates a session exactly when the credential response has
\* no invalid-credential marker and at least one Set-Cookie value; a
\* response with the marker fails as invalid credentials whether or not it
\* carries cookies; every failed login leaves the store unchanged.
C7_LoginCreatesSession ==
    [][ last'.op = "login"
        => /\ ( last'.res.status = 200 ) <=> Qualifies(last')
           /\ Qualifies(last')
              => /\ last'.res.setCookie \in DOMAIN userSessions'
                 /\ userSessions'[last'.res.setCookie] =
                      [ username |-> last'.username,
                        cookie |-> CookieString(last'.upstream.setCookies),
                        createdAt |-> now', lastAccess |-> now' ]
                 /\ \A o \in DOMAIN userSessions \ { last'.res.setCookie } :
                       o \in DOMAIN userSessions' /\ userSessions'[o] = userSessions[o]
           /\ ~ Qualifies(last') => userSessions' = userSessions
           /\ ( last'.upstream.post = "response" /\ last'.upstream.marker )
              => last'.res.error = "Invalid username or password"
           /\ ( /\ last'.upstream.post = "response" /\ ~ last'.upstream.marker
                /\ Len(last'.upstream.setCookies) = 0 )
              => last'.res.error = "Login failed" ]_vars

\* A credential response with the marker and with cookies was refused as
\* invalid credentials while a session of an earlier login is stored.
C7_Witness ==
    /\ last.op = "login" /\ last.upstream.marker
    /\ Len(last.upstream.setCookies) > 0
    /\ last.res.status = 401 /\ last.res.error = "Invalid username or password"
    /\ DOMAIN userSessions # { }

-----------------------------------------------------------------------------
(* Claims about the percentage derivation (specification SpecPoints).      *)

\* n / d (d > 0) rounded to the nearest integer, a half going up.
RoundHalfUp(n, d) == ( 2 * n + d ) \div ( 2 * d )

\* C8: the Task of a fragment whose points text is "a/b" (with or without
\* the unit and white space) has percentage round-half-up(100 a / b) when
\* b > 0 and no percentage when b <= 0; a points text without a '/' or
\* without a number on one side of it gives no percentage.
C8_PercentageIsRoundHalfUp ==
    ( pc = "task" /\ task # None )
    => /\ ( given.kind = "form" /\ given.total > 0 )
          => task[1].percentage = Some(RoundHalfUp(100 * given.earned, given.total))
       /\ ( given.kind = "form" /\ given.total <= 0 )
          => task[1].percentage = None
       /\ given.kind = "unparsable"
          => task[1].percentage = None

\* C9: the percentage of every Task is absent or an integer in 0..100.
C9_PercentageInRange ==
    ( pc = "task" /\ task # None )
    => ( task[1].percentage = None \/ task[1].percentage[1] \in 0..100 )

-----------------------------------------------------------------------------
(* Claims about the grade aggregation (specification SpecGrade).           *)

\* The percentages of the tasks of category name that have one.
Graded(ts, name) ==
    { i \in 1..Len(ts) : ts[i].category = name /\ ts[i].percentage # None }

RECURSIVE SumOver(_, _)
SumOver(f, S) ==
    IF S = { } THEN 0
    ELSE LET x == CHOOSE y \in S : TRUE IN f[x] + SumOver(f, S \ { x })

\* The category mean, rounded half up (the category has a graded task).
RoundedMean(ts, name) ==
    RoundHalfUp(SumOver([ i \in 1..Len(ts) |-> ts[i].percentage[1] ], Graded(ts, name)),
                Cardinality(Graded(ts, name)))

\* The categories that count: weight > 0 and an average.
Counting(ts, cs) ==
    { j \in 1..Len(cs) : cs[j].weight > 0 /\ Graded(ts, cs[j].name) # { } }

\* The final grade from the rounded category averages.
GradeOfRoundedAverages(ts, cs) ==
    IF Counting(ts, cs) = { } THEN None
    ELSE Some(RoundHalfUp(
           SumOver([ j \in 1..Len(cs) |-> RoundedMean(ts, cs[j].name) * cs[j].weight ],
                   Counting(ts, cs)),
           SumOver([ j \in 1..Len(cs) |-> cs[j].weight ], Counting(ts, cs))))

\* C10: the finalGrade of the class list and the final weighted grade of
\* the class view are both the grade from the rounded category averages
\* (absent when no category counts), and so are equal.
C10_FinalGradeFromRoundedAverages ==
    pc = "shown"
    => /\ serverGrade = GradeOfRoundedAverages(tasks, categories)
       /\ clientGrade = GradeOfRoundedAverages(tasks, categories)
       /\ serverGrade = clientGrade

\* The average shown for the j-th category of the list.
AverageShown(ts, cs, j) ==
    LET ga == gradeAverages(ts, cs)
    IN  IF j \in DOMAIN ga THEN ga[j].average ELSE None

\* C11: the average of every category of the list is the mean, rounded half
\* up, of the percentages of the tasks of that category's name that have a
\* percentage, and is absent when there is no such task; a task without a
\* category counts for no category.
C11_CategoryAverage ==
    pc = "shown"
    => \A j \in 1..Len(categories) :
          AverageShown(tasks, categories, j)
            = IF Graded(tasks, categories[j].name) = { }
                THEN None
                ELSE Some(RoundedMean(tasks, categories[j].name))

\* A class with a category whose mean is a half, a category without a graded
\* task, and a graded task without a category.
C11_Witness ==
    /\ pc = "shown"
    /\ \E j \in 1..Len(categories) :
          /\ Cardinality(Graded(tasks, categories[j].name)) = 2
          /\ AverageShown(tasks, categories, j) = Some(1)
          /\ \E i \in Graded(tasks, categories[j].name) : tasks[i].percentage = Some(0)
    /\ \E j \in 1..Len(categories) : AverageShown(tasks, categories, j) = None
    /\ \E i \in 1..Len(tasks) : tasks[i].category = NULL /\ tasks[i].percentage = Some(1)

\* cs without its j-th element, and cs with c put before its k-th element.
RemoveAt(cs, j) ==
    [ i \in 1..(Len(cs) - 1) |-> IF i < j THEN cs[i] ELSE cs[i + 1] ]

InsertAt(cs, k, c) ==
    [ i \in 1..(Len(cs) + 1) |-> IF i < k THEN cs[i] ELSE IF i = k THEN c ELSE cs[i - 1] ]

\* C12: the final grade of the server and of the client is the same without
\* any category of weight 0 of the list, and the same with one more category
\* of weight > 0 that has no task with a percentage.
C12_IrrelevantCategories ==
    pc = "shown"
    => /\ \A j \in 1..Len(categories) :
             categories[j].weight = 0
             => /\ calculateFinalGrade(tasks, RemoveAt(categories, j)) = serverGrade
                /\ calculateTotalClassAverage(tasks, RemoveAt(categories, j)) = clientGrade
       /\ \A c \in Categories, k \in 1..(Len(categories) + 1) :
             ( c.weight > 0 /\ Graded(tasks, c.name) = { } )
             => /\ calculateFinalGrade(tasks, InsertAt(categories, k, c)) = serverGrade
                /\ calculateTotalClassAverage(tasks, InsertAt(categories, k, c)) = clientGrade

\* A class with a grade, a category of weight 0 with graded tasks, and a
\* category name without a graded task.
C12_Witness ==
    /\ pc = "shown"
    /\ serverGrade # None
    /\ clientGrade # None
    /\ \E j \in 1..Len(categories) :
          categories[j].weight = 0 /\ Graded(tasks, categories[j].name) # { }
    /\ \E n \in CategoryNames : Graded(tasks, n) = { }

-----------------------------------------------------------------------------
(* Claims about the grade editor (specification SpecEdit).                 *)

\* The place in the task list of the task shown in row taskIndex of the
\* category at categoryIndex: the taskIndex-th task of that category.
ShownAt(ts, cs, categoryIndex, taskIndex) ==
    LET own == { i \in 1..Len(ts) : ts[i].category = cs[categoryIndex].name }
    IN  CHOOSE i \in own : Cardinality({ k \in own : k <= i }) = taskIndex

\* The rows of category categoryIndex other than taskIndex that differ from
\* the baseline.
OtherRowsModified(categoryIndex, taskIndex) ==
    \E row \in Coordinates :
       /\ row[1] = categoryIndex
       /\ row[2] # taskIndex
       /\ isTaskModified(Refs, row[1], row[2])

Acceptable(value) ==
    \/ value = << >>
    \/ /\ \A i \in 1..Len(value) : IsDigit(value[i])
       /\ ReadDigits(value, 0, 0).value <= 100

\* C14: setPercentage with another text than an integer of 0..100 or the
\* empty input changes no task and no baseline; with 0, 100 or the empty
\* input it is accepted (a task then has that percentage).
C14_SetPercentageValidates ==
    [][ edit'.op = "set"
        => IF Acceptable(edit'.value)
             THEN \E i \in 1..Len(tasks) :
                     tasks'[i].percentage
                       = IF edit'.value = << >> THEN None
                         ELSE Some(ReadDigits(edit'.value, 0, 0).value)
             ELSE /\ tasks' = tasks
                  /\ originalGradeAverages' = originalGradeAverages ]_vars

\* C18: no setPercentage and no restore changes the baseline snapshot: it
\* changes only by a fetch, by back-to-classes and by logout.
C18_BaselineKept ==
    [][ ( pc = "tasks" /\ pc' = "tasks" )
        => originalGradeAverages' = originalGradeAverages ]_vars

\* An edit has made a row differ from the baseline, and a restore has run.
C18_Witness ==
    /\ pc = "tasks"
    /\ edit.op = "restore"
    /\ \E row \in Coordinates : isTaskModified(Refs, row[1], row[2])

\* C19: an accepted setPercentage or a restore at a coordinate gives the
\* task shown at that coordinate the new (the baseline) percentage and
\* changes no other task.
C19_OnlyThatTask ==
    [][ ( edit'.op = "restore" \/ ( edit'.op = "set" /\ Acceptable(edit'.value) ) )
        => LET ci == edit'.categoryIndex
               ti == edit'.taskIndex
               shown == ShownAt(tasks, categories, ci, ti)
           IN  /\ \A i \in 1..Len(tasks) : i # shown => tasks'[i] = tasks[i]
               /\ tasks'[shown].percentage
                    = IF edit'.op = "restore"
                        THEN originalGradeAverages[ci].tasks[ti].percentage
                        ELSE IF edit'.value = << >> THEN None
                        ELSE Some(ReadDigits(edit'.value, 0, 0).value) ]_vars

-----------------------------------------------------------------------------
(* Claims about the category extraction (specification SpecCategories).    *)

Complete(frag) == frag.color # None /\ frag.label # None /\ frag.weight # None

\* One category for each complete fragment of frags[i..], from its fields.
RECURSIVE OwnCategories(_, _)
OwnCategories(frags, i) ==
    IF i > Len(frags) THEN << >>
    ELSE ( IF Complete(frags[i])
             THEN << [ name   |-> frags[i].label[1],
                       weight |-> ReadDigits(frags[i].weight[1], 0, 0).value,
                       color  |-> frags[i].color[1] ] >>
             ELSE << >> )
         \o OwnCategories(frags, i + 1)

\* C20: the extractor emits, in order, one category for each fragment that
\* has color, label text and weight, built from that fragment's fields; a
\* fragment that lacks one of them emits none and changes no other's.
C20_CategoryPerCompleteFragment ==
    pc = "extracted" => reply = OwnCategories(document, 1)

-----------------------------------------------------------------------------
(* Claims about the task list (specification SpecFetch).                   *)

\* The places of the blocks with a name anchor, and the place in the
\* server's list of the task of such a block.
Anchored(blocks) == { i \in 1..Len(blocks) : blocks[i].anchor # None }

PlaceOf(blocks, i) == Cardinality({ k \in Anchored(blocks) : k <= i })

\* The task t has no date and the other fields of the block.
Dateless(t, block) ==
    /\ t.date = None
    /\ t.taskId = block.anchor[1].taskId
    /\ t.name = block.anchor[1].name
    /\ t.category = block.labels[2]
    /\ t.grade = block.grade
    /\ t.points = block.points
    /\ t.percentage = IF block.points = None THEN None ELSE Some(0)

\* C15: a block with its name anchor and without its month or day label is
\* a task without a date and with its other fields, in the list the server
\* sends and in the list the client holds once it has processed the answer.
C15_DatelessTaskIncluded ==
    \A i \in Anchored(document.core_tasks) :
       ( document.core_tasks[i].month = None \/ document.core_tasks[i].day = None )
       => LET at == PlaceOf(document.core_tasks, i)
          IN  /\ pc \in { "sent", "tasks" }
                 => /\ at \in DOMAIN reply.tasks
                    /\ Dateless(reply.tasks[at], document.core_tasks[i])
              /\ pc = "tasks"
                 => \E k \in DOMAIN tasks :
                       /\ tasks[k].id = at - 1
                       /\ Dateless(tasks[k], document.core_tasks[i])

-----------------------------------------------------------------------------
(* Claims about the upstream failing.                                       *)

\* The grade of a class from its own pages.
OwnGrade(page) ==
    calculateFinalGrade(fetchTasks(page.core_tasks), fetchCategories(page.units))

\* C16 (specification SpecClasses): when the class list page is fetched,
\* the request succeeds with every class of the list; a class of which a
\* page could not be fetched has finalGrade null, every other class the
\* grade of its own pages.
C16_FailedClassDegrades ==
    ( pc = "graded" /\ document.ok )
    => /\ reply.status = 200
       /\ DOMAIN reply.classes = DOMAIN document.classes
       /\ \A i \in DOMAIN document.classes :
             reply.classes[i].finalGrade
               = IF document.classes[i].unitsOk /\ document.classes[i].tasksOk
                   THEN OwnGrade(document.classes[i])
                   ELSE None

\* A class list with a class whose page failed beside a class with a grade.
C16_Witness ==
    /\ pc = "graded"
    /\ document.ok
    /\ \E i, j \in DOMAIN document.classes :
          /\ ~ document.classes[i].tasksOk
          /\ OwnGrade(document.classes[i]) # None
          /\ reply.classes[i].finalGrade = None
          /\ document.classes[j].unitsOk /\ document.classes[j].tasksOk
          /\ reply.classes[j].finalGrade = Some(50)

\* C17 (specification Spec): GET /tasks/{classId} with a valid session and
\* a failing fetch of the class's tasks or categories is answered 500,
\* with no data.
C17_TasksUpstreamFailureIs500 ==
    ( last.op = "tasks" /\ last.upstream.fetch = "fail" )
    => /\ last.res.status = 500
       /\ ~ last.res.data

-----------------------------------------------------------------------------
(* Claims about the fan-out of GET /api/classes (specification             *)
(* SpecPipelines).                                                          *)

\* The limit a list of MaxPipelines classes would have to stay under; the
\* source names none.
FanOutLimit == MaxPipelines - 1

\* C21: while GET /api/classes computes the grades of a class list, the
\* number of per-class fetch+aggregate pipelines in flight at the same time
\* never exceeds a fixed fan-out limit, whatever the number of classes.
C21_FanOutBounded == PipelinesInFlight(pipelines) <= FanOutLimit

\* What the code does instead: right after classes.map the pipeline of every
\* class of the list is in flight, so the number in flight is the length of
\* the list.
C21_EveryPipelineStartedAtOnce ==
    [][ (pc = "my" /\ pc' = "mapped")
          => PipelinesInFlight(pipelines') = Len(document.classes) ]_vars

====
